---- MODULE Spec2Model ----
(***************************************************************************)
(* Model of genomics_benchmark.data: the configuration registry, the       *)
(* enhancer table stages (_standardize_columns, _process_data,             *)
(* _filter_data), the download cache and EnhancerProcessor's               *)
(* initialize_pipeline.                                                    *)
(*                                                                         *)
(* A table (pandas DataFrame) is [cols, rows]: cols is the sequence of     *)
(* column labels, rows the sequence of rows, each row a sequence of cells  *)
(* aligned with cols.  A cell is <<n>> for the value n and <<>> for a      *)
(* missing value (NaN / None).  Names (chromosomes, genes, strands) are    *)
(* numbered.  Raw tables carry unique column labels, as read_csv and       *)
(* read_excel produce them.                                                *)
(***************************************************************************)
EXTENDS Integers, Sequences, FiniteSets, TLC

\* ------------------------------------------------------------------ cells

NA == <<>>

Val(n) == <<n>>

isna(c) == c = NA

\* Python None for an Optional[int] argument.
None == <<>>

Range(s) == {s[i] : i \in DOMAIN s}

Abs(n) == IF n < 0 THEN 0 - n ELSE n

\* ----------------------------------------------------------------- tables

EmptyTable == [cols |-> <<>>, rows |-> <<>>]

HasCol(df, c) == \E j \in DOMAIN df.cols : df.cols[j] = c

\* Position of the column labelled c.
ColPos(df, c) == CHOOSE j \in DOMAIN df.cols : df.cols[j] = c

\* df[c] as the sequence of the column's cells, one per row.
Column(df, c) == [i \in DOMAIN df.rows |-> df.rows[i][ColPos(df, c)]]

\* df[c] = values: overwrites the column in place when it exists, appends it
\* as the last column otherwise.
SetColumn(df, c, values) ==
    IF HasCol(df, c)
    THEN [df EXCEPT !.rows = [i \in DOMAIN df.rows |->
                                 [df.rows[i] EXCEPT ![ColPos(df, c)] = values[i]]]]
    ELSE [cols |-> Append(df.cols, c),
          rows |-> [i \in DOMAIN df.rows |-> Append(df.rows[i], values[i])]]

\* A stage's outcome: a table, or the exception it raised.
Ok(df) == [ok |-> TRUE, df |-> df, err |-> "", missing |-> <<>>]

Err(e, m) == [ok |-> FALSE, df |-> EmptyTable, err |-> e, missing |-> m]

\* ------------------------------------------------------- the static registry

\* required_columns groups: a list of names, or one bare name (a str).
GroupList(cols) == [isList |-> TRUE, cols |-> cols]

GroupStr(col) == [isList |-> FALSE, cols |-> <<col>>]

EnhancerTaskConfig ==
    [required_columns |-> << GroupList(<<"chr", "start", "end">>),
                             GroupList(<<"gene_name", "gene_tss">>),
                             GroupStr("Significant") >>,
     distance_threshold |-> 100000000,
     output_columns |-> <<"chr", "start", "end", "gene_name", "gene_tss",
                          "distance", "ABC Score", "labels">>]

ABCFulcoMapping ==
    << <<"chr", "chr">>, <<"start", "start">>, <<"end", "end">>,
       <<"gene_name", "Gene">>, <<"gene_tss", "Gene TSS">>,
       <<"Normalized HiC Contacts", "Normalized HiC Contacts">>,
       <<"H3K27ac (RPM)", "H3K27ac (RPM)">>, <<"Activity", "Activity">>,
       <<"ABC Score", "ABC Score">>, <<"Significant", "Significant">> >>

E2GMapping ==
    << <<"chr", "chrom">>, <<"start", "chromStart">>, <<"end", "chromEnd">>,
       <<"gene_name", "measuredGeneSymbol">>, <<"gene_tss", "startTSS">>,
       <<"ABC Score", "ABCScoreDNaseOnlyAvgHicTrack2">>,
       <<"Significant", "Significant">>,
       <<"hic_contact", "3DContactAvgHicTrack2">>,
       <<"hic_contact_squared", "3DContactAvgHicTrack2_squared">>,
       <<"activity_enh", "activityEnhDNaseOnlyAvgHicTrack2_squared">>,
       <<"activity_prom", "activityPromDNaseOnlyAvgHicTrack2">> >>

ABC_fulco ==
    [name |-> "Fulco Enhancer Dataset",
     genome_version |-> "hg19",
     data_url |-> "https://raw.githubusercontent.com/yueyueliu/Benchmark_Genomics/main/data/demo_online/enhancer/ABC_Fulco.xlsx",
     file_format |-> "xlsx",
     label_column |-> "Significant",
     column_mapping |-> ABCFulcoMapping,
     additional_columns |-> <<>>]

Merged ==
    [name |-> "E2G Enhancer Dataset",
     genome_version |-> "hg38",
     data_url |-> "https://raw.githubusercontent.com/yueyueliu/Benchmark_Genomics/main/data/demo_online/enhancer/Merged.tsv",
     file_format |-> "tsv",
     label_column |-> "Regulated",
     column_mapping |-> E2GMapping,
     additional_columns |-> <<"EffectSize">>]

\* "More datasets can be added...": a dataset entry that leaves the optional
\* keys genome_version and additional_columns out.
AddedDataset ==
    [name |-> "Added Enhancer Dataset",
     data_url |-> "https://raw.githubusercontent.com/yueyueliu/Benchmark_Genomics/main/data/demo_online/enhancer/Added.tsv",
     file_format |-> "tsv",
     label_column |-> "Significant",
     column_mapping |-> E2GMapping]

\* A dataset entry that defines keys the task_config defines too: its own
\* output_columns (without the computed distance) and required_columns.
OverridingDataset ==
    [name |-> "Overriding Enhancer Dataset",
     genome_version |-> "hg38",
     data_url |-> "https://raw.githubusercontent.com/yueyueliu/Benchmark_Genomics/main/data/demo_online/enhancer/Overriding.tsv",
     file_format |-> "tsv",
     label_column |-> "Significant",
     column_mapping |-> E2GMapping,
     required_columns |-> << GroupList(<<"chr", "start", "end">>),
                             GroupList(<<"gene_name", "gene_tss">>) >>,
     output_columns |-> <<"chr", "start", "end", "gene_name", "gene_tss",
                          "ABC Score", "labels">>]

EqtlTaskConfig ==
    [required_columns |-> << GroupList(<<"phenotype_id", "gene_name", "biotype">>),
                             GroupList(<<"variant_id", "pip", "af">>),
                             GroupList(<<"afc", "afc_se">>) >>,
     output_columns |-> <<"phenotype_id", "gene_name", "biotype", "variant_id",
                          "pip", "af", "afc", "afc_se", "labels">>]

Adipose_Subcutaneous ==
    [name |-> "Adipose Subcutaneous eQTL Dataset",
     genome_version |-> "hg38",
     data_url |-> "https://raw.githubusercontent.com/yueyueliu/Benchmark_Genomics/main/data/demo_online/eqtl/Adipose_Subcutaneous.v10.eQTLs.SuSiE_summary.parquet",
     file_format |-> "parquet",
     column_mapping |->
        << <<"phenotype_id", "phenotype_id">>, <<"gene_name", "gene_name">>,
           <<"biotype", "biotype">>, <<"variant_id", "variant_id">>,
           <<"pip", "pip">>, <<"af", "af">>, <<"cs_id", "cs_id">>,
           <<"cs_size", "cs_size">>, <<"afc", "afc">>, <<"afc_se", "afc_se">> >>,
     additional_columns |-> <<>>]

\* DATASET_CONFIG[task]: the task's keys ("task_config" and the dataset names).
DATASET_CONFIG ==
    [enhancer |-> [task_config |-> EnhancerTaskConfig,
                   ABC_fulco |-> ABC_fulco,
                   Merged |-> Merged,
                   Added |-> AddedDataset,
                   Overriding |-> OverridingDataset],
     eqtl |-> [task_config |-> EqtlTaskConfig,
               Adipose_Subcutaneous |-> Adipose_Subcutaneous]]

\* Genome versions of DATASET_CONFIG["reference_genome"].
ReferenceGenomes == {"hg19", "hg38", "mm10"}

\* A merge in which the first dict's value wins on a shared key.
DictMergeFirstWins(a, b) ==
    [k \in (DOMAIN a) \cup (DOMAIN b) |-> IF k \in DOMAIN a THEN a[k] ELSE b[k]]

\* {**a, **b}
DictMerge(a, b) ==
    [k \in (DOMAIN a) \cup (DOMAIN b) |-> IF k \in DOMAIN b THEN b[k] ELSE a[k]]

\* get_dataset_config: raises ValueError for an unknown task or dataset name.
ConfigKnown(task_name, dataset_name) ==
    /\ task_name \in DOMAIN DATASET_CONFIG
    /\ dataset_name \in DOMAIN DATASET_CONFIG[task_name]

get_dataset_config(task_name, dataset_name) ==
    DictMerge(DATASET_CONFIG[task_name]["task_config"],
              DATASET_CONFIG[task_name][dataset_name])

\* ------------------------------------------------- _standardize_columns

RECURSIVE FlattenGroups(_)
\* required_columns = []; extend with a list group, append a bare name.
FlattenGroups(groups) ==
    IF groups = <<>> THEN <<>>
    ELSE Head(groups).cols \o FlattenGroups(Tail(groups))

\* column_mapping is an insertion-ordered dict: a sequence of <<key, value>>
\* pairs with unique keys.
MappingHas(column_mapping, k) ==
    \E i \in DOMAIN column_mapping : column_mapping[i][1] = k

MappingGet(column_mapping, k) ==
    column_mapping[CHOOSE i \in DOMAIN column_mapping : column_mapping[i][1] = k][2]

\* reverse_mapping = {v: k for k, v in column_mapping.items()}: when two keys
\* share a value the later pair overwrites the earlier one.
ReverseHas(column_mapping, v) ==
    \E i \in DOMAIN column_mapping : column_mapping[i][2] = v

ReverseGet(column_mapping, v) ==
    LET last == CHOOSE i \in DOMAIN column_mapping :
                    /\ column_mapping[i][2] = v
                    /\ \A j \in DOMAIN column_mapping :
                           column_mapping[j][2] = v => j <= i
    IN  column_mapping[last][1]

\* df.rename(columns=reverse_mapping): a new table, every label that is a key
\* of reverse_mapping replaced, the others kept.
Rename(df, column_mapping) ==
    [df EXCEPT !.cols = [j \in DOMAIN df.cols |->
                            IF ReverseHas(column_mapping, df.cols[j])
                            THEN ReverseGet(column_mapping, df.cols[j])
                            ELSE df.cols[j]]]

\* The required columns with no mapping entry or whose source column is absent.
missing_columns(config, df) ==
    LET column_mapping == config["column_mapping"]
        IsMissing(col) == \/ ~MappingHas(column_mapping, col)
                          \/ ~HasCol(df, MappingGet(column_mapping, col))
    IN  SelectSeq(FlattenGroups(config["required_columns"]), IsMissing)

standardize_columns(config, df) ==
    IF missing_columns(config, df) # <<>>
    THEN Err("ValueError: Missing required columns", missing_columns(config, df))
    ELSE Ok(Rename(df, config["column_mapping"]))

\* ------------------------------------------------------- _process_data

\* A midpoint whose division truncates toward zero.
Center_truncating(s, e) ==
    IF isna(s) \/ isna(e) THEN NA
    ELSE IF s[1] + e[1] < 0 THEN Val(0 - ((0 - (s[1] + e[1])) \div 2))
    ELSE Val((s[1] + e[1]) \div 2)

\* (start + end) // 2 on a row; a missing operand gives a missing result.
Center(s, e) == IF isna(s) \/ isna(e) THEN NA ELSE Val((s[1] + e[1]) \div 2)

\* abs(enhancer_center - gene_tss)
Distance(c, t) == IF isna(c) \/ isna(t) THEN NA ELSE Val(Abs(c[1] - t[1]))

\* lambda x: 1 if x else 0
Label_truthy(x) == IF x = Val(0) THEN Val(0) ELSE Val(1)

\* lambda x: 1 if x == 1 else 0
Label(x) == IF x = Val(1) THEN Val(1) ELSE Val(0)

process_data(config, df) ==
    IF ~(HasCol(df, "start") /\ HasCol(df, "end"))
    THEN Err("KeyError: start/end", <<>>)
    ELSE
    LET df1 == SetColumn(df, "enhancer_center",
                   [i \in DOMAIN df.rows |->
                       Center(Column(df, "start")[i], Column(df, "end")[i])])
    IN
    IF ~HasCol(df1, "gene_tss")
    THEN Err("KeyError: gene_tss", <<>>)
    ELSE
    LET df2 == SetColumn(df1, "distance",
                   [i \in DOMAIN df1.rows |->
                       Distance(Column(df1, "enhancer_center")[i],
                                Column(df1, "gene_tss")[i])])
    IN
    IF "label_column" \notin DOMAIN config
    THEN Err("KeyError: label_column", <<>>)
    ELSE IF ~HasCol(df2, config["label_column"])
    THEN Err("KeyError: label column", <<>>)
    ELSE Ok(SetColumn(df2, "labels",
                [i \in DOMAIN df2.rows |->
                    Label(Column(df2, config["label_column"])[i])]))

\* --------------------------------------------------------- _filter_data

\* A truthiness test in place of the comparison with None.
threshold_given_truthy(distance_threshold) ==
    distance_threshold # None /\ distance_threshold # Val(0)

\* if distance_threshold is not None
threshold_given(distance_threshold) == distance_threshold # None

\* The threshold the two branches of _filter_data compare against; None when
\* neither branch is taken.
effective_threshold(config, distance_threshold) ==
    IF threshold_given(distance_threshold) THEN distance_threshold
    ELSE IF "distance_threshold" \in DOMAIN config
         THEN Val(config["distance_threshold"])
         ELSE None

\* distance <= threshold; a comparison with NaN is False.
within(d, t) == ~isna(d) /\ d[1] <= t

\* columns_to_keep
columns_to_keep(config) ==
    IF "additional_columns" \in DOMAIN config
    THEN config["output_columns"] \o config["additional_columns"]
    ELSE config["output_columns"]

\* A projection that keeps the labels the table has and drops the others.
ProjectPresent(df, columns) ==
    LET present == SelectSeq(columns, LAMBDA c : HasCol(df, c))
    IN  Ok([cols |-> present,
            rows |-> [i \in DOMAIN df.rows |->
                         [k \in DOMAIN present |->
                             df.rows[i][ColPos(df, present[k])]]]])

\* df[columns]: KeyError when a label is absent from the table.
Project(df, columns) ==
    IF \E k \in DOMAIN columns : ~HasCol(df, columns[k])
    THEN Err("KeyError: not in index",
             SelectSeq(columns, LAMBDA c : ~HasCol(df, c)))
    ELSE Ok([cols |-> columns,
             rows |-> [i \in DOMAIN df.rows |->
                          [k \in DOMAIN columns |->
                              df.rows[i][ColPos(df, columns[k])]]]])

\* df[df['distance'] <= t]: the rows that satisfy the mask, in order.
FilterRows(df, t) ==
    LET p == ColPos(df, "distance")
    IN  [df EXCEPT !.rows = SelectSeq(df.rows, LAMBDA r : within(r[p], t))]

filter_data(config, df, distance_threshold) ==
    LET t == effective_threshold(config, distance_threshold)
    IN  IF t = None THEN Project(df, columns_to_keep(config))
        ELSE IF ~HasCol(df, "distance") THEN Err("KeyError: distance", <<>>)
        ELSE Project(FilterRows(df, t[1]), columns_to_keep(config))

\* The input table after a call of _process_data: the columns are assigned on
\* the caller's DataFrame itself, up to the statement that raised.
process_data_input_after(config, df) ==
    IF ~(HasCol(df, "start") /\ HasCol(df, "end")) THEN df
    ELSE
    LET df1 == SetColumn(df, "enhancer_center",
                   [i \in DOMAIN df.rows |->
                       Center(Column(df, "start")[i], Column(df, "end")[i])])
    IN
    IF ~HasCol(df1, "gene_tss") THEN df1
    ELSE
    LET df2 == SetColumn(df1, "distance",
                   [i \in DOMAIN df1.rows |->
                       Distance(Column(df1, "enhancer_center")[i],
                                Column(df1, "gene_tss")[i])])
    IN
    IF process_data(config, df).ok THEN process_data(config, df).df ELSE df2

\* A call of _filter_data: the parameter distance_threshold is bound to the
\* argument when the caller passes one and to its default None otherwise.
Arg(v) == [given |-> TRUE, val |-> v]

NoArg == [given |-> FALSE, val |-> None]

filter_data_call(config, df, arg) ==
    filter_data(config, df, IF arg.given THEN arg.val ELSE None)

\* ------------------------------------------------------ DataDownloader

\* A file of the cache: absent, partial (left by an interrupted write) or
\* complete; `table` is what it holds.
AbsentFile == [state |-> "absent", table |-> EmptyTable]

\* What an interrupted write leaves of a table: the rows but the last, or
\* nothing at all (not even the header line) of a table without rows.
Truncated(t) ==
    IF t.rows = <<>> THEN EmptyTable
    ELSE [t EXCEPT !.rows = SubSeq(t.rows, 1, Len(t.rows) - 1)]

\* url.split('/')[-1] for the URLs of the registry.
LastSegment(url) ==
    CASE url = ABC_fulco.data_url -> "ABC_Fulco.xlsx"
      [] url = Merged.data_url -> "Merged.tsv"
      [] url = AddedDataset.data_url -> "Added.tsv"
      [] url = OverridingDataset.data_url -> "Overriding.tsv"
      [] url = Adipose_Subcutaneous.data_url
             -> "Adipose_Subcutaneous.v10.eQTLs.SuSiE_summary.parquet"
      [] OTHER -> ""

\* _get_cache_path: cache_dir / filename, the MD5 of the URL standing in for
\* an empty filename.
get_cache_path(cache_dir, url) ==
    LET filename == LastSegment(url)
    IN  <<cache_dir, IF filename = "" THEN "md5(url)" ELSE filename>>

\* A download that ignores the cache: every call issues the request.
download_uncached(dirExists, file, force, served) ==
    {[ok |-> FALSE, file |-> file, requested |-> TRUE,
      err |-> "RequestException"]}
    \cup
    (IF ~dirExists
     THEN {[ok |-> FALSE, file |-> file, requested |-> TRUE,
            err |-> "FileNotFoundError"]}
     ELSE {[ok |-> TRUE, file |-> [state |-> "complete", table |-> t],
            requested |-> TRUE, err |-> ""] : t \in served})

\* DataDownloader.download(url, force): the outcomes of one call, given whether
\* the downloader's cache_dir exists, the file at cache_path and the tables the
\* server may answer with.  `requested` tells whether requests.get was issued.
download(dirExists, file, force, served) ==
    IF ~force /\ file.state # "absent"
    THEN {[ok |-> TRUE, file |-> file, requested |-> FALSE, err |-> ""]}
    ELSE {[ok |-> FALSE, file |-> file, requested |-> TRUE,
           err |-> "RequestException"]}
         \cup
         (IF ~dirExists
          THEN {[ok |-> FALSE, file |-> file, requested |-> TRUE,
                 err |-> "FileNotFoundError"]}
          ELSE {[ok |-> FALSE,
                 file |-> [state |-> "partial", table |-> Truncated(t)],
                 requested |-> TRUE, err |-> "ConnectionError"] : t \in served}
               \cup
               {[ok |-> TRUE, file |-> [state |-> "complete", table |-> t],
                 requested |-> TRUE, err |-> ""] : t \in served})

\* --------------------------------------------------------- _load_file

\* Path(url.split('/')[-1]).suffix of the dataset's data_url.
Suffix(config) ==
    CASE config["file_format"] = "xlsx" -> ".xlsx"
      [] config["file_format"] = "tsv" -> ".tsv"
      [] config["file_format"] = "csv" -> ".csv"
      [] OTHER -> ".parquet"

\* _load_file: a truncated workbook cannot be opened; a text file without a
\* header line cannot be parsed; a text file cut after a line parses.
load_file(config, file) ==
    IF Suffix(config) \notin {".xlsx", ".csv", ".tsv"}
    THEN Err("ValueError: Unsupported file format", <<>>)
    ELSE IF Suffix(config) = ".xlsx" /\ file.state = "partial"
    THEN Err("BadZipFile", <<>>)
    ELSE IF file.table.cols = <<>>
    THEN Err("EmptyDataError", <<>>)
    ELSE Ok(file.table)

\* ------------------------------------------- download_reference_genome

\* One genome file: the cached archive (gz) and the decompressed file (dec),
\* which is "absent", "empty" (opened for writing by a decompression that then
\* failed) or "complete".
NoGenomeFile == [gz |-> "absent", dec |-> "absent"]

\* The `if not path.exists(): download, _decompress_gz` block for one file.
\* The archive's cache directory was created just before, so it exists.
genome_file(f) ==
    IF f.dec # "absent" THEN {[ok |-> TRUE, f |-> f, calls |-> 0,
                               fetchFailed |-> FALSE]}
    ELSE {[ok |-> o.ok /\ o.file.state = "complete",
           fetchFailed |-> ~o.ok,
           f |-> [gz |-> o.file.state,
                  dec |-> IF ~o.ok THEN "absent"
                          ELSE IF o.file.state = "complete" THEN "complete"
                          ELSE "empty"],
           calls |-> 1] :
             o \in download(TRUE, [state |-> f.gz, table |-> EmptyTable], FALSE,
                            {EmptyTable})}

\* download_reference_genome(genome_version, cache_root, file_type): the
\* outcomes [ok, files (the keys of the returned dict), fasta, gtf, calls,
\* fetchFailed (a call of download raised)].
download_reference_genome(genome_version, file_type, fasta, gtf) ==
    IF genome_version \notin ReferenceGenomes \/ file_type \notin {"fasta", "gtf", "both"}
    THEN {[ok |-> FALSE, files |-> {}, fasta |-> fasta, gtf |-> gtf, calls |-> 0,
           fetchFailed |-> FALSE]}
    ELSE
    LET first == IF file_type \in {"fasta", "both"}
                 THEN genome_file(fasta)
                 ELSE {[ok |-> TRUE, f |-> fasta, calls |-> 0,
                        fetchFailed |-> FALSE]}
    IN  UNION {
          IF ~a.ok
          THEN {[ok |-> FALSE, files |-> {}, fasta |-> a.f, gtf |-> gtf,
                 calls |-> a.calls, fetchFailed |-> a.fetchFailed]}
          ELSE IF file_type \notin {"gtf", "both"}
          THEN {[ok |-> TRUE, files |-> {"fasta"}, fasta |-> a.f, gtf |-> gtf,
                 calls |-> a.calls, fetchFailed |-> FALSE]}
          ELSE {[ok |-> b.ok,
                 files |-> IF ~b.ok THEN {}
                           ELSE IF file_type = "both" THEN {"fasta", "gtf"}
                           ELSE {"gtf"},
                 fasta |-> a.f, gtf |-> b.f, calls |-> a.calls + b.calls,
                 fetchFailed |-> b.fetchFailed] :
                   b \in genome_file(gtf)}
          : a \in first}

\* ---------------------------------------------------- _add_strand_info

\* A GTF annotation after the gene rows are extracted and de-duplicated on
\* gene_name: the strand of each gene name it lists, missing for the others.
Annotations ==
    { [g \in {Val(1), Val(2), Val(3), NA} |-> IF g = Val(1) THEN Val(1)
                                               ELSE IF g = Val(2) THEN Val(2)
                                               ELSE NA],
      [g \in {Val(1), Val(2), Val(3), NA} |-> NA] }

\* The merge with how='inner': rows whose gene the annotation lacks are dropped.
add_strand_info_inner(df, annotation) ==
    IF ~HasCol(df, "gene_name") THEN Err("KeyError: gene_name", <<>>)
    ELSE IF HasCol(df, "strand") THEN Err("KeyError: strand", <<>>)
    ELSE LET p == ColPos(df, "gene_name")
             rows == SelectSeq(df.rows, LAMBDA r : annotation[r[p]] # NA)
         IN  Ok([cols |-> Append(df.cols, "strand"),
                 rows |-> [i \in DOMAIN rows |->
                              Append(rows[i], annotation[rows[i][p]])]])

\* df.merge(gene_annotation[['gene_name', 'strand']], on='gene_name',
\* how='left'): one row per row of df, in order, with the column strand added.
add_strand_info(df, annotation) ==
    IF ~HasCol(df, "gene_name") THEN Err("KeyError: gene_name", <<>>)
    ELSE IF HasCol(df, "strand") THEN Err("KeyError: strand", <<>>)
    ELSE Ok([cols |-> Append(df.cols, "strand"),
             rows |-> [i \in DOMAIN df.rows |->
                          Append(df.rows[i],
                                 annotation[Column(df, "gene_name")[i]])]])

\* ------------------------------------------------------------ metrics

\* A mask that looks at the score only.
valid_mask_score_only(df, score_column) ==
    SelectSeq([i \in DOMAIN df.rows |-> i],
        LAMBDA i : ~isna(Column(df, score_column)[i]))

\* valid_mask = ~(df[score_column].isna() | df['labels'].isna()), as the
\* positions of the rows it selects.
valid_mask(df, score_column) ==
    SelectSeq([i \in DOMAIN df.rows |-> i],
        LAMBDA i : ~(isna(Column(df, score_column)[i])
                     \/ isna(Column(df, "labels")[i])))

\* The labels of the rows calculate_metrics keeps (score and label present).
ValidLabels(df, score_column) ==
    LET keep == valid_mask(df, score_column)
    IN  [n \in DOMAIN keep |-> Column(df, "labels")[keep[n]]]

\* roc_auc_score is defined only when both classes occur among the labels.
BothClasses(labels) == Val(0) \in Range(labels) /\ Val(1) \in Range(labels)

CountOf(labels, v) == Cardinality({i \in DOMAIN labels : labels[i] = v})

\* A number as a quotient of two integers; a / 0 is what a division by a
\* zero count would give.
Quot(a, b) == [num |-> a, den |-> b]

Zero == Quot(0, 1)

\* A ratio guarded on the positive class only.
pos_neg_ratio_unguarded(count0, count1) ==
    IF count1 > 0 THEN Quot(count1, count0) ELSE Zero

\* label_counts[1] / label_counts[0] if 0 in label_counts and 1 in
\* label_counts else 0; value_counts lists the values that occur.
pos_neg_ratio(count0, count1) ==
    IF count0 > 0 /\ count1 > 0 THEN Quot(count1, count0) ELSE Zero

\* analyze_label_distribution: total_samples, the label counts (value_counts
\* leaves missing labels out) and the ratio.
analyze_label_distribution(df) ==
    LET labels == Column(df, "labels")
    IN  [total_samples |-> Len(df.rows),
         count0 |-> CountOf(labels, Val(0)),
         count1 |-> CountOf(labels, Val(1)),
         positive_negative_ratio |->
             pos_neg_ratio(CountOf(labels, Val(0)), CountOf(labels, Val(1)))]

\* calculate_metrics(df, score_column): the outcomes of one call; `used` are
\* the positions of the rows handed to roc_auc_score and
\* average_precision_score.  roc_auc_score raises on an empty input; with one
\* class among the labels it raises or returns nan, depending on the release.
calculate_metrics(df, score_column) ==
    LET raised(e) == [ok |-> FALSE, err |-> e, used |-> <<>>, auroc |-> ""]
    IN  IF ~HasCol(df, score_column)
        THEN {raised("ValueError: Column not found in data")}
        ELSE IF ~HasCol(df, "labels")
        THEN {raised("ValueError: Labels column not found in data")}
        ELSE LET used == valid_mask(df, score_column)
                 labels == [n \in DOMAIN used |-> Column(df, "labels")[used[n]]]
             IN  IF BothClasses(labels)
                 THEN {[ok |-> TRUE, err |-> "", used |-> used,
                        auroc |-> "computed"]}
                 ELSE IF labels = <<>>
                 THEN {raised("ValueError: empty input")}
                 ELSE {raised("ValueError: Only one class present in y_true"),
                       [ok |-> TRUE, err |-> "", used |-> used, auroc |-> "nan"]}

\* ---------------------------------------------------------- dict helper

\* d[k] = v on a dict
Put(d, k, v) == [x \in (DOMAIN d) \cup {k} |-> IF x = k THEN v ELSE d[x]]

EmptyDict == [x \in {} |-> 0]

\* ================================================== inputs of the stages

MaxRows == 3

\* The semantic field a source or canonical column label carries.
Role(label) ==
    CASE label \in {"chr", "chrom"} -> "chr"
      [] label \in {"start", "chromStart"} -> "start"
      [] label \in {"end", "chromEnd"} -> "end"
      [] label \in {"Gene", "measuredGeneSymbol"} -> "gene"
      [] label \in {"Gene TSS", "startTSS"} -> "tss"
      [] label \in {"ABC Score", "ABCScoreDNaseOnlyAvgHicTrack2"} -> "score"
      [] label = "Significant" -> "sig"
      [] label = "Regulated" -> "reg"
      [] label = "EffectSize" -> "eff"

\* Rows a raw file may hold.  Distances to the TSS: 10, 0, beyond the task's
\* threshold, 11, missing, and 0 from coordinates below zero with an odd sum.
Protos ==
    << [chr |-> Val(1), start |-> Val(100), end |-> Val(200), gene |-> Val(1),
        tss |-> Val(140), score |-> Val(9), sig |-> Val(1), reg |-> Val(1),
        eff |-> Val(3)],
       [chr |-> Val(1), start |-> Val(100), end |-> Val(200), gene |-> Val(2),
        tss |-> Val(150), score |-> Val(1), sig |-> Val(0), reg |-> Val(0),
        eff |-> Val(0)],
       [chr |-> Val(2), start |-> Val(100), end |-> Val(201), gene |-> Val(1),
        tss |-> Val(300000000), score |-> NA, sig |-> Val(1), reg |-> Val(0),
        eff |-> NA],
       [chr |-> Val(1), start |-> Val(201), end |-> Val(100), gene |-> Val(3),
        tss |-> Val(161), score |-> Val(5), sig |-> NA, reg |-> NA,
        eff |-> Val(1)],
       [chr |-> Val(1), start |-> Val(100), end |-> Val(200), gene |-> NA,
        tss |-> NA, score |-> Val(1), sig |-> Val(2), reg |-> Val(1),
        eff |-> Val(2)],
       [chr |-> Val(1), start |-> Val(-3), end |-> Val(0), gene |-> Val(2),
        tss |-> Val(-2), score |-> Val(2), sig |-> Val(1), reg |-> Val(1),
        eff |-> Val(1)] >>

\* Column layouts of raw files: the two source vocabularies, complete and with
\* columns left out.
Layouts ==
    << <<"chr", "start", "end", "Gene", "Gene TSS", "ABC Score", "Significant">>,
       <<"chrom", "chromStart", "chromEnd", "measuredGeneSymbol", "startTSS",
         "ABCScoreDNaseOnlyAvgHicTrack2", "Significant", "Regulated",
         "EffectSize">>,
       <<"chrom", "chromStart", "chromEnd", "measuredGeneSymbol", "startTSS",
         "ABCScoreDNaseOnlyAvgHicTrack2", "Significant", "Regulated">>,
       <<"chrom", "chromStart", "chromEnd", "ABCScoreDNaseOnlyAvgHicTrack2",
         "Regulated", "EffectSize">>,
       <<"chrom", "chromStart", "chromEnd", "measuredGeneSymbol", "startTSS",
         "Significant", "EffectSize">> >>

RowChoices(n) == UNION {[1..k -> DOMAIN Protos] : k \in 0..n}

RawTable(layout, choice) ==
    [cols |-> layout,
     rows |-> [i \in DOMAIN choice |->
                  [j \in DOMAIN layout |-> Protos[choice[i]][Role(layout[j])]]]]

WithoutKey(config, key) == [k \in (DOMAIN config) \ {key} |-> config[k]]

\* A column_mapping in which the canonical names start and end share one
\* source column, and one with no entry for gene_name and gene_tss.
SharedSourceMapping ==
    << <<"chr", "chrom">>, <<"start", "chromStart">>, <<"end", "chromStart">>,
       <<"gene_name", "measuredGeneSymbol">>, <<"gene_tss", "startTSS">>,
       <<"ABC Score", "ABCScoreDNaseOnlyAvgHicTrack2">>,
       <<"Significant", "Significant">> >>

PartialMapping ==
    << <<"chr", "chrom">>, <<"start", "chromStart">>, <<"end", "chromEnd">>,
       <<"ABC Score", "ABCScoreDNaseOnlyAvgHicTrack2">>,
       <<"Significant", "Significant">> >>

\* Descriptors the stages are exercised with: the registry's, and the
\* registry's with one key changed or left out.
StageConfigs ==
    << get_dataset_config("enhancer", "ABC_fulco"),
       get_dataset_config("enhancer", "Merged"),
       get_dataset_config("enhancer", "Added"),
       [get_dataset_config("enhancer", "Merged") EXCEPT !["distance_threshold"] = 10],
       WithoutKey(get_dataset_config("enhancer", "Merged"), "distance_threshold"),
       [get_dataset_config("enhancer", "Merged")
           EXCEPT !["column_mapping"] = SharedSourceMapping],
       [get_dataset_config("enhancer", "Added")
           EXCEPT !["column_mapping"] = PartialMapping],
       get_dataset_config("enhancer", "Overriding") >>

ThresholdArgs == {NoArg, Arg(None), Arg(Val(0)), Arg(Val(10))}

\* ======================================================== the state

VARIABLES
    sPc,        \* stages: "raw", "normalized", "computed", "filtered"
    sCfg,       \* stages: index of the descriptor in StageConfigs
    sRaw,       \* stages: the raw table
    sNorm,      \* stages: outcome of _standardize_columns
    sNormObj,   \* stages: the DataFrame object _standardize_columns returned
    sFeatIn,    \* stages: the table _process_data was called with
    sFeat,      \* stages: outcome of _process_data
    sArg,       \* stages: the threshold argument of the _filter_data call
    sRes,       \* stages: outcome of _filter_data
    sRes2,      \* stages: outcome of _filter_data called on its own result
    sStatsIn,   \* stages: the table the statistics methods were called with
    sMetrics,   \* stages: outcome of calculate_metrics
    sDist       \* stages: what analyze_label_distribution returned

VARIABLES
    pc,             \* "new", "ctor_failed", "idle", or the position in initialize_pipeline
    cls,            \* the class constructed: "EnhancerProcessor" or "BaseDataset"
    task_name,      \* self.task_name
    dataset_name,   \* self.dataset_name
    fs,             \* the cache on disk: cacheDir, data, fasta, gtf
    data_path,      \* self.data_path is set (not None)
    opts,           \* the arguments of the running initialize_pipeline call
    results,        \* the local dict `results` of initialize_pipeline
    processed_data, \* the local table `processed_data`
    retained,       \* number of rows _filter_data returned in this run
    persisted,      \* the file this run wrote at output_path
    trace,          \* the stages this run completed, in order
    caller,         \* what the last call handed to its caller
    fetchCalls,     \* calls of DataDownloader.download so far
    ops,            \* calls made on the processor so far
    lastFetch,      \* the last call of download for the dataset's data_url
    cachePaths,     \* the <<url, cache path>> pairs of the calls so far
    fetchFailed     \* a call of download raised during the running pipeline

\* The variables of the calls made on a filtered table.
tvars == <<sRes2, sStatsIn, sMetrics, sDist>>

svars == <<sPc, sCfg, sRaw, sNorm, sNormObj, sFeatIn, sFeat, sArg, sRes, tvars>>

\* The record of the calls of DataDownloader.download.
hvars == <<lastFetch, cachePaths, fetchFailed>>

pvars == <<pc, cls, task_name, dataset_name, fs, data_path, opts, results,
           processed_data, retained, persisted, trace, caller, fetchCalls, ops,
           hvars>>

vars == <<svars, pvars>>

sConfig == StageConfigs[sCfg]

NoOutcome == Err("not called", <<>>)

NoMetrics == [ok |-> FALSE, err |-> "not called", used |-> <<>>, auroc |-> ""]

NoDistribution ==
    [total_samples |-> 0, count0 |-> 0, count1 |-> 0,
     positive_negative_ratio |-> Zero]

\* The values of tvars before any call on a filtered table.
StatsFresh ==
    /\ sRes2 = NoOutcome
    /\ sStatsIn = EmptyTable
    /\ sMetrics = NoMetrics
    /\ sDist = NoDistribution

NoOpts ==
    [output_path |-> FALSE, distance_threshold |-> None, clear_cache |-> FALSE,
     do_statistics |-> FALSE, download_genome |-> FALSE, add_strand |-> FALSE]

NoFile == [written |-> FALSE, header |-> <<>>, rows |-> <<>>]

NoCall ==
    [kind |-> "none", op |-> "", error |-> "", hasReport |-> FALSE,
     report |-> EmptyDict]

NoFetch ==
    [called |-> FALSE, url |-> "", force |-> FALSE, before |-> "absent",
     requested |-> FALSE, ok |-> FALSE, path |-> <<>>, after |-> "absent"]

\* What one call of download(url, force) on the file `before` did.
FetchRecord(url, force, before, o) ==
    [called |-> TRUE, url |-> url, force |-> force, before |-> before.state,
     requested |-> o.requested, ok |-> o.ok,
     path |-> IF o.ok THEN get_cache_path("cache_dir", url) ELSE <<>>,
     after |-> o.file.state]

FreshDisk ==
    [cacheDir |-> FALSE, data |-> AbsentFile, fasta |-> NoGenomeFile,
     gtf |-> NoGenomeFile]

\* The values of the processor's variables before it is constructed.
PipelineFresh(at) ==
    /\ pc = at
    /\ cls = "" /\ task_name = "" /\ dataset_name = ""
    /\ fs = FreshDisk
    /\ data_path = FALSE
    /\ opts = NoOpts
    /\ results = EmptyDict
    /\ processed_data = EmptyTable
    /\ retained = 0
    /\ persisted = NoFile
    /\ trace = <<>>
    /\ caller = NoCall
    /\ fetchCalls = 0
    /\ ops = 0
    /\ lastFetch = NoFetch
    /\ cachePaths = {}
    /\ fetchFailed = FALSE

PipelineOff == PipelineFresh("off")

InitStages ==
    /\ sPc = "raw"
    /\ sCfg \in DOMAIN StageConfigs
    /\ \E l \in DOMAIN Layouts, choice \in RowChoices(MaxRows) :
           sRaw = RawTable(Layouts[l], choice)
    /\ sNorm = NoOutcome
    /\ sNormObj = EmptyTable
    /\ sFeatIn = EmptyTable
    /\ sFeat = NoOutcome
    /\ sArg = NoArg
    /\ sRes = NoOutcome
    /\ StatsFresh
    /\ PipelineOff

\* processed_data = self._standardize_columns(raw_data)
Normalize ==
    /\ sPc = "raw"
    /\ sNorm' = standardize_columns(sConfig, sRaw)
    /\ sNormObj' = sNorm'.df
    /\ sPc' = "normalized"
    /\ UNCHANGED <<sCfg, sRaw, sFeatIn, sFeat, sArg, sRes, tvars, pvars>>

\* processed_data = self._process_data(processed_data)
Compute ==
    /\ sPc = "normalized"
    /\ sNorm.ok
    /\ sFeatIn' = sNormObj
    /\ sFeat' = process_data(sConfig, sNormObj)
    /\ sNormObj' = process_data_input_after(sConfig, sNormObj)
    /\ sPc' = "computed"
    /\ UNCHANGED <<sCfg, sRaw, sNorm, sArg, sRes, tvars, pvars>>

\* processed_data = self._filter_data(processed_data, ...)
Filter ==
    /\ sPc = "computed"
    /\ sFeat.ok
    /\ \E arg \in ThresholdArgs :
           /\ sArg' = arg
           /\ sRes' = filter_data_call(sConfig, sFeat.df, arg)
    /\ sPc' = "filtered"
    /\ UNCHANGED <<sCfg, sRaw, sNorm, sNormObj, sFeatIn, sFeat, tvars, pvars>>

\* self._filter_data called again, on the table it returned, with the same
\* threshold argument.
Refilter ==
    /\ sPc = "filtered"
    /\ sRes.ok
    /\ sRes2' = filter_data_call(sConfig, sRes.df, sArg)
    /\ sPc' = "refiltered"
    /\ UNCHANGED <<sCfg, sRaw, sNorm, sNormObj, sFeatIn, sFeat, sArg, sRes,
                   sStatsIn, sMetrics, sDist, pvars>>

\* The tables a caller hands to the statistics methods: the result table, and
\* the result table with the label of its first row missing.
StatsInputs(df) ==
    {df} \cup
    (IF df.rows # <<>> /\ HasCol(df, "labels")
     THEN {SetColumn(df, "labels",
               [i \in DOMAIN df.rows |->
                   IF i = 1 THEN NA ELSE Column(df, "labels")[i]])}
     ELSE {})

\* self.calculate_metrics(df, score_column='ABC Score')
Metrics ==
    /\ sPc = "filtered"
    /\ sRes.ok
    /\ \E df \in StatsInputs(sRes.df) :
           /\ sStatsIn' = df
           /\ sMetrics' \in calculate_metrics(df, "ABC Score")
    /\ sPc' = "measured"
    /\ UNCHANGED <<sCfg, sRaw, sNorm, sNormObj, sFeatIn, sFeat, sArg, sRes,
                   sRes2, sDist, pvars>>

\* self.analyze_label_distribution(df), on the table the metrics were asked
\* for.
Distribution ==
    /\ sPc = "measured"
    /\ HasCol(sStatsIn, "labels")
    /\ sDist' = analyze_label_distribution(sStatsIn)
    /\ sPc' = "analysed"
    /\ UNCHANGED <<sCfg, sRaw, sNorm, sNormObj, sFeatIn, sFeat, sArg, sRes,
                   sRes2, sStatsIn, sMetrics, pvars>>

NextStages ==
    \/ Normalize
    \/ Compute
    \/ Filter
    \/ Refilter
    \/ Metrics
    \/ Distribution

SpecStages == InitStages /\ [][NextStages]_vars

\* ============================================= the processor and its pipeline

MaxOps == 2

TaskNames == {"enhancer", "eqtl", "unknown_task"}

DatasetNames ==
    {"ABC_fulco", "Merged", "Added", "Overriding", "Adipose_Subcutaneous",
     "unknown_dataset"}

\* The tables the server may answer a dataset's data_url with: the dataset's
\* source vocabulary with rows of both classes, with rows of one class and
\* without rows, and files that lack columns.
Served(dataset) ==
    IF dataset = "ABC_fulco"
    THEN {RawTable(Layouts[1], <<1, 2, 3>>), RawTable(Layouts[1], <<2, 5>>),
          RawTable(Layouts[1], <<>>), RawTable(Layouts[4], <<1, 2>>)}
    ELSE {RawTable(Layouts[2], <<1, 2, 3>>), RawTable(Layouts[2], <<2, 5>>),
          RawTable(Layouts[2], <<>>), RawTable(Layouts[3], <<1, 4>>),
          RawTable(Layouts[4], <<1, 2>>)}

\* The arguments of initialize_pipeline (genome_file_type is not read).
OptionSets ==
    [output_path : BOOLEAN, distance_threshold : {None, Val(10)},
     clear_cache : BOOLEAN, do_statistics : BOOLEAN,
     download_genome : BOOLEAN, add_strand : BOOLEAN]

\* self.config
Config == get_dataset_config(task_name, dataset_name)

Init ==
    /\ PipelineFresh("new")
    /\ sPc = "off"
    /\ sCfg = 1
    /\ sRaw = EmptyTable
    /\ sNorm = NoOutcome
    /\ sNormObj = EmptyTable
    /\ sFeatIn = EmptyTable
    /\ sFeat = NoOutcome
    /\ sArg = NoArg
    /\ sRes = NoOutcome
    /\ StatsFresh

Returned(op, report) ==
    [kind |-> "returned", op |-> op, error |-> "", hasReport |-> TRUE,
     report |-> report]

\* An exception reaches the caller: the call returns no value.
Raised(op, e) ==
    [kind |-> "raised", op |-> op, error |-> e, hasReport |-> FALSE,
     report |-> EmptyDict]

\* BaseDataset.__init__ (through EnhancerProcessor.__init__, whose task is
\* "enhancer"): the cache directory is made, then the configuration is read.
Construct ==
    /\ pc = "new"
    /\ \E c \in {"EnhancerProcessor", "BaseDataset"},
          t \in TaskNames, d \in DatasetNames :
           /\ c = "EnhancerProcessor" => t = "enhancer"
           /\ cls' = c /\ task_name' = t /\ dataset_name' = d
           /\ fs' = [fs EXCEPT !.cacheDir = TRUE]
           /\ IF ConfigKnown(t, d)
              THEN pc' = "idle" /\ caller' = Returned("init", EmptyDict)
              ELSE pc' = "ctor_failed"
                   /\ caller' = Raised("init", "ValueError: Unknown name")
    /\ UNCHANGED <<data_path, opts, results, processed_data, retained,
                   persisted, trace, fetchCalls, ops, hvars, svars>>

\* BaseDataset.download(force)
DownloadOp ==
    /\ pc = "idle" /\ ops < MaxOps
    /\ \E force \in BOOLEAN :
         \E o \in download(fs.cacheDir, fs.data, force, Served(dataset_name)) :
           /\ fs' = [fs EXCEPT !.data = o.file]
           /\ data_path' = (o.ok \/ data_path)
           /\ caller' = IF o.ok THEN Returned("download", EmptyDict)
                        ELSE Raised("download", o.err)
           /\ lastFetch' = FetchRecord(Config["data_url"], force, fs.data, o)
    /\ cachePaths' = cachePaths \cup
           {<<Config["data_url"], get_cache_path("cache_dir", Config["data_url"])>>}
    /\ fetchCalls' = fetchCalls + 1
    /\ ops' = ops + 1
    /\ UNCHANGED <<pc, cls, task_name, dataset_name, opts, results,
                   processed_data, retained, persisted, trace, fetchFailed, svars>>

\* The disk after BaseDataset.clear_cache(clear_all).
cleared(disk, clear_all) ==
    IF clear_all THEN FreshDisk
    ELSE IF disk.cacheDir
         THEN [disk EXCEPT !.cacheDir = FALSE, !.data = AbsentFile]
         ELSE disk

\* BaseDataset.clear_cache(clear_all)
ClearCacheOp ==
    /\ pc = "idle" /\ ops < MaxOps
    /\ \E clear_all \in BOOLEAN : fs' = cleared(fs, clear_all)
    /\ data_path' = FALSE
    /\ caller' = Returned("clear_cache", EmptyDict)
    /\ ops' = ops + 1
    /\ UNCHANGED <<pc, cls, task_name, dataset_name, opts, results,
                   processed_data, retained, persisted, trace, fetchCalls, hvars,
                   svars>>

\* The order of the numbered blocks of initialize_pipeline.
step_after_swapped(p) ==
    CASE p = "genome" -> "fetch"
      [] p = "fetch" -> "load"
      [] p = "load" -> "compute"
      [] p = "compute" -> "filter"
      [] p = "filter" -> "strand"
      [] p = "strand" -> "stats"
      [] p = "stats" -> "persist"
      [] p = "persist" -> "clear"
      [] p = "clear" -> "finish"

step_after(p) ==
    CASE p = "genome" -> "fetch"
      [] p = "fetch" -> "load"
      [] p = "load" -> "compute"
      [] p = "compute" -> "filter"
      [] p = "filter" -> "strand"
      [] p = "strand" -> "persist"
      [] p = "persist" -> "clear"
      [] p = "clear" -> "stats"
      [] p = "stats" -> "finish"

\* except Exception as e: results['status'] = 'error'; ...; raise
Fail(e) ==
    /\ results' = Put(Put(results, "status", "error"), "error_message", e)
    /\ caller' = Raised("initialize_pipeline", e)
    /\ trace' = Append(trace, "Failed")
    /\ pc' = "idle"

\* A call of initialize_pipeline: results = {}
PipelineStart ==
    /\ pc = "idle" /\ ops < MaxOps
    /\ cls = "EnhancerProcessor"
    /\ opts' \in OptionSets
    /\ results' = EmptyDict
    /\ processed_data' = EmptyTable
    /\ retained' = 0
    /\ persisted' = NoFile
    /\ trace' = <<"ConfigResolved">>
    /\ caller' = NoCall
    /\ pc' = "genome"
    /\ ops' = ops + 1
    /\ fetchFailed' = FALSE
    /\ UNCHANGED <<cls, task_name, dataset_name, fs, data_path, fetchCalls,
                   lastFetch, cachePaths, svars>>

\* 0. Download reference genome (if needed)
GenomeStep ==
    /\ pc = "genome"
    /\ IF ~(opts.download_genome \/ opts.add_strand)
          \/ "genome_version" \notin DOMAIN Config
       THEN /\ pc' = step_after(pc)
            /\ UNCHANGED <<fs, fetchCalls, fetchFailed, results, caller, trace>>
       ELSE \E g \in download_reference_genome(
                        Config["genome_version"],
                        IF opts.download_genome THEN "both" ELSE "gtf",
                        fs.fasta, fs.gtf) :
              /\ fs' = [fs EXCEPT !.fasta = g.fasta, !.gtf = g.gtf]
              /\ fetchCalls' = fetchCalls + g.calls
              /\ fetchFailed' = g.fetchFailed
              /\ IF g.ok
                 THEN /\ results' = Put(results, "genome_files", g.files)
                      /\ pc' = step_after(pc)
                      /\ UNCHANGED <<caller, trace>>
                 ELSE IF opts.add_strand
                 THEN /\ results' =
                            Put(Put(Put(results, "genome_download_error", "failed"),
                                    "status", "error"),
                                "error_message",
                                "ValueError: Reference genome download failed")
                      /\ caller' = Raised("initialize_pipeline",
                                     "ValueError: Reference genome download failed")
                      /\ trace' = Append(trace, "Failed")
                      /\ pc' = "idle"
                 ELSE /\ results' = Put(results, "genome_download_error", "failed")
                      /\ pc' = step_after(pc)
                      /\ UNCHANGED <<caller, trace>>
    /\ UNCHANGED <<cls, task_name, dataset_name, data_path, opts,
                   processed_data, retained, persisted, ops, lastFetch,
                   cachePaths, svars>>

\* 1. Download data: data_path = self.download()
FetchStep ==
    /\ pc = "fetch"
    /\ \E o \in download(fs.cacheDir, fs.data, FALSE, Served(dataset_name)) :
         /\ fs' = [fs EXCEPT !.data = o.file]
         /\ lastFetch' = FetchRecord(Config["data_url"], FALSE, fs.data, o)
         /\ fetchFailed' = (fetchFailed \/ ~o.ok)
         /\ IF o.ok
            THEN /\ data_path' = TRUE
                 /\ results' = Put(results, "download_path", "cache_path")
                 /\ trace' = Append(trace, "Fetched")
                 /\ pc' = step_after(pc)
                 /\ UNCHANGED caller
            ELSE Fail(o.err) /\ UNCHANGED data_path
    /\ cachePaths' = cachePaths \cup
           {<<Config["data_url"], get_cache_path("cache_dir", Config["data_url"])>>}
    /\ fetchCalls' = fetchCalls + 1
    /\ UNCHANGED <<cls, task_name, dataset_name, opts, processed_data,
                   retained, persisted, ops, svars>>

\* 2. load(): _load_file and _standardize_columns (data_path is set).
NormalizeStep ==
    /\ pc = "load"
    /\ LET raw == load_file(Config, fs.data)
           n == standardize_columns(Config, raw.df)
       IN  IF ~raw.ok THEN Fail(raw.err) /\ UNCHANGED processed_data
           ELSE IF ~n.ok THEN Fail(n.err) /\ UNCHANGED processed_data
           ELSE /\ processed_data' = n.df
                /\ trace' = Append(trace, "Normalized")
                /\ pc' = step_after(pc)
                /\ UNCHANGED <<results, caller>>
    /\ UNCHANGED <<cls, task_name, dataset_name, fs, data_path, opts,
                   retained, persisted, fetchCalls, ops, hvars,
                   svars>>

\* 2. load(): _process_data
ComputeStep ==
    /\ pc = "compute"
    /\ LET f == process_data(Config, processed_data)
       IN  IF ~f.ok THEN Fail(f.err) /\ UNCHANGED processed_data
           ELSE /\ processed_data' = f.df
                /\ trace' = Append(trace, "FeatureComputed")
                /\ pc' = step_after(pc)
                /\ UNCHANGED <<results, caller>>
    /\ UNCHANGED <<cls, task_name, dataset_name, fs, data_path, opts,
                   retained, persisted, fetchCalls, ops, hvars,
                   svars>>

\* 2. load(): _filter_data(processed_data, distance_threshold)
FilterStep ==
    /\ pc = "filter"
    /\ LET r == filter_data(Config, processed_data, opts.distance_threshold)
       IN  IF ~r.ok THEN Fail(r.err) /\ UNCHANGED <<processed_data, retained>>
           ELSE /\ processed_data' = r.df
                /\ retained' = Len(r.df.rows)
                /\ trace' = Append(trace, "Filtered")
                /\ pc' = step_after(pc)
                /\ UNCHANGED <<results, caller>>
    /\ UNCHANGED <<cls, task_name, dataset_name, fs, data_path, opts,
                   persisted, fetchCalls, ops, hvars,
                   svars>>

\* if 'genome_files' not in results or 'gtf' not in results['genome_files']
gtf_unavailable(r) ==
    "genome_files" \notin DOMAIN r \/ "gtf" \notin r["genome_files"]

\* What step 2.1 does when the GTF file is unavailable.
on_gtf_unavailable_skip == "skip"

on_gtf_unavailable == "raise"

\* results['data_shape'], results['columns']
WithShape(r, df) ==
    Put(Put(r, "data_shape", <<Len(df.rows), Len(df.cols)>>), "columns", df.cols)

\* 2.1 Add strand information (if needed), then the shape is recorded.
StrandStep ==
    /\ pc = "strand"
    /\ IF ~opts.add_strand
          \/ (gtf_unavailable(results) /\ on_gtf_unavailable = "skip")
       THEN /\ results' = WithShape(results, processed_data)
            /\ pc' = step_after(pc)
            /\ UNCHANGED <<processed_data, trace, caller>>
       ELSE IF gtf_unavailable(results)
       THEN Fail("ValueError: GTF file not available") /\ UNCHANGED processed_data
       ELSE IF fs.gtf.dec # "complete"
       THEN Fail("EmptyDataError") /\ UNCHANGED processed_data
       ELSE \E a \in Annotations :
              LET r == add_strand_info(processed_data, a)
              IN  IF ~r.ok THEN Fail(r.err) /\ UNCHANGED processed_data
                  ELSE /\ processed_data' = r.df
                       /\ results' = WithShape(results, r.df)
                       /\ trace' = Append(trace, "StrandAugmented")
                       /\ pc' = step_after(pc)
                       /\ UNCHANGED caller
    /\ UNCHANGED <<cls, task_name, dataset_name, fs, data_path, opts,
                   retained, persisted, fetchCalls, ops, hvars,
                   svars>>

\* 3. Save processed data: processed_data.to_csv(output_path, sep='\t', index=False)
PersistStep ==
    /\ pc = "persist"
    /\ IF opts.output_path
       THEN /\ persisted' = [written |-> TRUE, header |-> processed_data.cols,
                             rows |-> processed_data.rows]
            /\ results' = Put(results, "output_path", "output_path")
            /\ trace' = Append(trace, "Persisted")
       ELSE UNCHANGED <<persisted, results, trace>>
    /\ pc' = step_after(pc)
    /\ UNCHANGED <<cls, task_name, dataset_name, fs, data_path, opts,
                   processed_data, retained, caller, fetchCalls, ops, hvars,
                   svars>>

\* 4. Clear cache: self.clear_cache(clear_all=True)
ClearStep ==
    /\ pc = "clear"
    /\ IF opts.clear_cache
       THEN /\ fs' = cleared(fs, TRUE)
            /\ data_path' = FALSE
            /\ results' = Put(results, "cache_cleared", TRUE)
       ELSE UNCHANGED <<fs, data_path, results>>
    /\ pc' = step_after(pc)
    /\ UNCHANGED <<cls, task_name, dataset_name, opts, processed_data,
                   retained, persisted, trace, caller, fetchCalls, ops, hvars,
                   svars>>

\* 5. Statistical analysis: calculate_metrics, analyze_label_distribution.
\* roc_auc_score raises on an empty input; with one class among the labels it
\* raises or returns nan with a warning, depending on the installed release.
StatsStep ==
    /\ pc = "stats"
    /\ IF ~opts.do_statistics
       THEN pc' = step_after(pc) /\ UNCHANGED <<results, trace, caller>>
       ELSE IF ~HasCol(processed_data, "ABC Score")
       THEN Fail("ValueError: Column not found in data")
       ELSE IF ~HasCol(processed_data, "labels")
       THEN Fail("ValueError: Labels column not found in data")
       ELSE LET labels == ValidLabels(processed_data, "ABC Score")
                done == /\ results' =
                              Put(Put(results, "metrics",
                                      IF BothClasses(labels) THEN "computed" ELSE "nan"),
                                  "distribution",
                                  analyze_label_distribution(processed_data))
                        /\ trace' = Append(trace, "Scored")
                        /\ pc' = step_after(pc)
                        /\ UNCHANGED caller
            IN  IF BothClasses(labels) THEN done
                ELSE IF labels = <<>> THEN Fail("ValueError: empty input")
                ELSE Fail("ValueError: Only one class present in y_true") \/ done
    /\ UNCHANGED <<cls, task_name, dataset_name, fs, data_path, opts,
                   processed_data, retained, persisted, fetchCalls, ops, hvars,
                   svars>>

\* results['status'] = 'success'; return results
FinishStep ==
    /\ pc = "finish"
    /\ results' = Put(results, "status", "success")
    /\ caller' = Returned("initialize_pipeline", results')
    /\ trace' = Append(trace, "Done")
    /\ pc' = "idle"
    /\ UNCHANGED <<cls, task_name, dataset_name, fs, data_path, opts,
                   processed_data, retained, persisted, fetchCalls, ops, hvars,
                   svars>>

Next ==
    \/ Construct
    \/ DownloadOp
    \/ ClearCacheOp
    \/ PipelineStart
    \/ GenomeStep
    \/ FetchStep
    \/ NormalizeStep
    \/ ComputeStep
    \/ FilterStep
    \/ StrandStep
    \/ PersistStep
    \/ ClearStep
    \/ StatsStep
    \/ FinishStep

Spec == Init /\ [][Next]_vars

\* ============================================== properties of the stages

sComputed == sPc \in {"computed", "filtered"} /\ sFeat.ok

sFiltered == sPc = "filtered"

\* C1: every row whose raw label (the descriptor's label_column) is missing
\* has a missing value in `labels` after compute; it is never coerced to 0.
C1_MissingLabelStaysMissing ==
    sComputed =>
        \A i \in DOMAIN sFeatIn.rows :
            isna(Column(sFeatIn, sConfig["label_column"])[i])
                => isna(Column(sFeat.df, "labels")[i])

\* What the code does with a missing raw label: `labels` is 0.
C1_MissingLabelBecomesZero ==
    sComputed =>
        \A i \in DOMAIN sFeatIn.rows :
            isna(Column(sFeatIn, sConfig["label_column"])[i])
                => Column(sFeat.df, "labels")[i] = Val(0)

C1_Reached ==
    /\ sComputed
    /\ \E i \in DOMAIN sFeatIn.rows :
           isna(Column(sFeatIn, sConfig["label_column"])[i])

\* The canonical names of every required_columns group.
RequiredNames(config) ==
    UNION {Range(config["required_columns"][g].cols) :
              g \in DOMAIN config["required_columns"]}

\* The required names with no column_mapping entry or with an absent source.
Unresolvable(config, raw) ==
    {c \in RequiredNames(config) :
        \A i \in DOMAIN config["column_mapping"] :
            config["column_mapping"][i][1] = c
                => ~HasCol(raw, config["column_mapping"][i][2])}

\* C2: normalize either fails naming every unresolvable required column, or
\* succeeds with every required canonical name a column of the result; also
\* when two canonical names share a source column.
C2_RequiredPresentOrAllNamed ==
    sPc # "raw" =>
        \/ ~sNorm.ok /\ Range(sNorm.missing) = Unresolvable(sConfig, sRaw)
                     /\ sNorm.missing # <<>>
        \/ sNorm.ok /\ \A c \in RequiredNames(sConfig) : HasCol(sNorm.df, c)

C2_Reached ==
    /\ sPc # "raw"
    /\ sNorm.ok
    /\ \E c \in RequiredNames(sConfig) : ~HasCol(sNorm.df, c)

\* C4: an explicit threshold of None keeps every row.
C4_ExplicitNoneKeepsAll ==
    (sFiltered /\ sArg = Arg(None) /\ sRes.ok)
        => Len(sRes.df.rows) = Len(sFeat.df.rows)

\* C4, second half: the outcome of a call with an explicit None differs from
\* the outcome of a call without a threshold on some table the configured
\* threshold cuts.  The code binds both calls to the same parameter value.
C4_NoneSameAsOmitted ==
    sComputed =>
        filter_data_call(sConfig, sFeat.df, Arg(None))
            = filter_data_call(sConfig, sFeat.df, NoArg)

\* The threshold the specification prescribes for a call: the argument when
\* an integer is passed, else the descriptor's, else none.
PrescribedThreshold(config, arg) ==
    IF arg.given /\ arg.val # None THEN arg.val
    ELSE IF "distance_threshold" \in DOMAIN config
         THEN Val(config["distance_threshold"])
         ELSE None

\* The indices of the rows the specification retains, in order.
RECURSIVE KeptFrom(_, _, _)
KeptFrom(dist, t, i) ==
    IF i > Len(dist) THEN <<>>
    ELSE IF t = None \/ (~isna(dist[i]) /\ dist[i][1] <= t[1])
         THEN <<i>> \o KeptFrom(dist, t, i + 1)
         ELSE KeptFrom(dist, t, i + 1)

\* C5: the result holds exactly the rows with distance <= the effective
\* threshold (ties kept), in their order; every row when no threshold applies.
C5_RetainsWithinThreshold ==
    (sFiltered /\ sRes.ok) =>
        LET kept == KeptFrom(Column(sFeat.df, "distance"),
                             PrescribedThreshold(sConfig, sArg), 1)
        IN  /\ Len(sRes.df.rows) = Len(kept)
            /\ \A n \in DOMAIN kept :
                   \A k \in DOMAIN sRes.df.cols :
                       sRes.df.rows[n][k] =
                           sFeat.df.rows[kept[n]][ColPos(sFeat.df, sRes.df.cols[k])]

\* An explicit 0 keeps the row at distance 0 and drops the row at distance 10.
C5_Reached ==
    /\ sFiltered /\ sRes.ok
    /\ sArg = Arg(Val(0))
    /\ Column(sFeat.df, "distance") = <<Val(10), Val(0)>>
    /\ HasCol(sRes.df, "distance")
    /\ Column(sRes.df, "distance") = <<Val(0)>>

\* output_columns followed by additional_columns.
DeclaredColumns(config) ==
    config["output_columns"] \o
        (IF "additional_columns" \in DOMAIN config
         THEN config["additional_columns"] ELSE <<>>)

\* C10: the projection returns output_columns ++ additional_columns in that
\* order, and fails when a declared column is absent from the feature table.
C10_ProjectsDeclaredOrFails ==
    sFiltered =>
        IF \A k \in DOMAIN DeclaredColumns(sConfig) :
               HasCol(sFeat.df, DeclaredColumns(sConfig)[k])
        THEN sRes.ok /\ sRes.df.cols = DeclaredColumns(sConfig)
        ELSE ~sRes.ok

\* A feature table without the declared EffectSize column: the call fails.
C10_Reached ==
    /\ sFiltered
    /\ ~HasCol(sFeat.df, "EffectSize")
    /\ "EffectSize" \in Range(DeclaredColumns(sConfig))
    /\ ~sRes.ok

\* C11: filtering a table _filter_data returned, at the same threshold,
\* succeeds and returns that table (same rows, same columns, same order).
C11_FilterIdempotent ==
    sPc = "refiltered" => sRes2.ok /\ sRes2.df = sRes.df

\* The descriptors and calls C11 holds for: the declared columns keep
\* `distance`, or no threshold applies.
C11_IdempotentWhenDistanceKept ==
    (sPc = "refiltered"
     /\ (\/ "distance" \in Range(DeclaredColumns(sConfig))
         \/ PrescribedThreshold(sConfig, sArg) = None))
        => sRes2.ok /\ sRes2.df = sRes.df

\* The second call fails: the first projected the distance column away.
C11_Reached ==
    /\ sPc = "refiltered"
    /\ ~sRes2.ok
    /\ sRes2.err = "KeyError: distance"

\* The table with the cells of start and end exchanged.
SwappedEnds(df) ==
    SetColumn(SetColumn(df, "start", Column(df, "end")), "end", Column(df, "start"))

\* C13: distance = |floor((start + end) / 2) - gene_tss| for every row with
\* start, end and gene_tss present (missing otherwise); it is never negative
\* and is the same when start and end are exchanged.
C13_DistanceFromFlooredMidpoint ==
    sComputed =>
        /\ \A i \in DOMAIN sFeatIn.rows :
               LET s == Column(sFeatIn, "start")[i]
                   e == Column(sFeatIn, "end")[i]
                   t == Column(sFeatIn, "gene_tss")[i]
                   d == Column(sFeat.df, "distance")[i]
               IN  IF isna(s) \/ isna(e) \/ isna(t) THEN isna(d)
                   ELSE /\ ~isna(d)
                        /\ d[1] >= 0
                        /\ \E c \in {t[1] + d[1], t[1] - d[1]} :
                               2 * c <= s[1] + e[1] /\ s[1] + e[1] < 2 * c + 2
        /\ process_data(sConfig, SwappedEnds(sFeatIn)).ok
        /\ Column(process_data(sConfig, SwappedEnds(sFeatIn)).df, "distance")
               = Column(sFeat.df, "distance")

\* A row whose coordinates sum to an odd number below zero (start -3, end 0,
\* TSS -2) got the distance 0.
C13_Reached ==
    /\ sComputed
    /\ \E i \in DOMAIN sFeatIn.rows :
           /\ Column(sFeatIn, "start")[i] = Val(-3)
           /\ Column(sFeatIn, "end")[i] = Val(0)
           /\ Column(sFeat.df, "distance")[i] = Val(0)

\* C14: labels is 1 exactly when the raw value of label_column equals 1 and
\* 0 otherwise; it holds no value other than 0, 1 or missing; on a raw label
\* in {0, 1} it is the raw label.
C14_LabelsAreEqualityWithOne ==
    sComputed =>
        \A i \in DOMAIN sFeatIn.rows :
            LET raw == Column(sFeatIn, sConfig["label_column"])[i]
                l == Column(sFeat.df, "labels")[i]
            IN  /\ (l = Val(1)) <=> (raw = Val(1))
                /\ raw # Val(1) => l = Val(0)
                /\ l \in {Val(0), Val(1), NA}
                /\ raw \in {Val(0), Val(1)} => l = raw

\* A raw label of 2 became 0, next to raw labels that are 0 or 1.
C14_Reached ==
    /\ sComputed
    /\ \E i, j \in DOMAIN sFeatIn.rows :
           /\ Column(sFeatIn, sConfig["label_column"])[i] = Val(2)
           /\ Column(sFeat.df, "labels")[i] = Val(0)
           /\ Column(sFeatIn, sConfig["label_column"])[j] \in {Val(0), Val(1)}

\* The number of rows of df whose label is v.
RowsLabelled(df, v) ==
    Cardinality({i \in DOMAIN df.rows : df.rows[i][ColPos(df, "labels")] = v})

\* C15: positive_negative_ratio is count(label = 1) / count(label = 0) when
\* both classes occur, and exactly 0 when either class has no row, the empty
\* table included.
C15_RatioOrZero ==
    sPc = "analysed" =>
        LET c0 == RowsLabelled(sStatsIn, Val(0))
            c1 == RowsLabelled(sStatsIn, Val(1))
            r == sDist.positive_negative_ratio
        IN  IF c0 > 0 /\ c1 > 0
            THEN r.den # 0 /\ r.num * c0 = r.den * c1
            ELSE r = Zero

\* A table with positive rows only.
C15_Reached ==
    /\ sPc = "analysed"
    /\ RowsLabelled(sStatsIn, Val(0)) = 0
    /\ RowsLabelled(sStatsIn, Val(1)) > 0
    /\ sDist.positive_negative_ratio = Zero

\* The empty table and a table with two classes in unequal numbers.
C15_EmptyReached ==
    sPc = "analysed" /\ sStatsIn.rows = <<>> /\ sDist.positive_negative_ratio = Zero

C15_UnequalReached ==
    /\ sPc = "analysed"
    /\ RowsLabelled(sStatsIn, Val(0)) = 1
    /\ RowsLabelled(sStatsIn, Val(1)) = 2
    /\ sDist.positive_negative_ratio = Quot(2, 1)

\* C16: AUROC/AUPRC use exactly the rows with score and label present; the
\* total and the per-label counts cover every row of the table, the rows
\* with a missing score included.
C16_MetricsPairwiseDistributionAll ==
    /\ (sPc \in {"measured", "analysed"} /\ sMetrics.ok) =>
           /\ Range(sMetrics.used) =
                  {i \in DOMAIN sStatsIn.rows :
                      /\ sStatsIn.rows[i][ColPos(sStatsIn, "ABC Score")] # NA
                      /\ sStatsIn.rows[i][ColPos(sStatsIn, "labels")] # NA}
           /\ \A m, n \in DOMAIN sMetrics.used :
                  m < n => sMetrics.used[m] < sMetrics.used[n]
    /\ sPc = "analysed" =>
           /\ sDist.total_samples = Len(sStatsIn.rows)
           /\ sDist.count0 = RowsLabelled(sStatsIn, Val(0))
           /\ sDist.count1 = RowsLabelled(sStatsIn, Val(1))

\* Metrics computed on a table with a row without score and a row without
\* label, both counted in total_samples.
C16_Reached ==
    /\ sPc = "analysed" /\ sMetrics.ok
    /\ \E i, j \in DOMAIN sStatsIn.rows :
           /\ sStatsIn.rows[i][ColPos(sStatsIn, "ABC Score")] = NA
           /\ sStatsIn.rows[i][ColPos(sStatsIn, "labels")] # NA
           /\ sStatsIn.rows[j][ColPos(sStatsIn, "labels")] = NA
    /\ Len(sMetrics.used) < sDist.total_samples
    /\ sDist.count0 + sDist.count1 > Len(sMetrics.used)

\* C19: the normalized table passed to compute has the same columns and
\* values after the call as before.
C19_InputUnchanged ==
    sComputed => sNormObj = sFeatIn

\* What the code does: the table it returns is the table it was given, with
\* enhancer_center, distance and labels assigned on it.
C19_InputIsResult ==
    sComputed =>
        /\ sNormObj = sFeat.df
        /\ HasCol(sNormObj, "enhancer_center") /\ ~HasCol(sFeatIn, "enhancer_center")
        /\ HasCol(sNormObj, "distance") /\ HasCol(sNormObj, "labels")

C19_Reached == sComputed /\ sNormObj # sFeatIn

\* ============================================ properties of the pipeline

PipelineEnded == pc = "idle" /\ caller.op = "initialize_pipeline"

Succeeded == PipelineEnded /\ caller.kind = "returned"

Failed == PipelineEnded /\ caller.kind = "raised"

\* C3: when the task or dataset name is unknown the constructor raises before
\* any I/O: no fetch has been made and nothing has been written to disk.
C3_NoIOBeforeConfigError ==
    pc = "ctor_failed" => fetchCalls = 0 /\ fs = FreshDisk

\* The part of C3 the code keeps: no fetch precedes the configuration error.
C3_NoFetchBeforeConfigError ==
    pc = "ctor_failed" => fetchCalls = 0 /\ fs.data = AbsentFile

C3_Reached ==
    pc = "ctor_failed" /\ dataset_name = "unknown_dataset" /\ fs.cacheDir

\* C6: after a failed run the caller holds the report, with status 'error',
\* error_message and the outputs of the stages that completed.
C6_ReportInspectableOnFailure ==
    Failed =>
        /\ caller.hasReport
        /\ "status" \in DOMAIN caller.report
        /\ caller.report["status"] = "error"
        /\ "error_message" \in DOMAIN caller.report

\* What the code does on a failure: status and error_message are set in the
\* local dict, which holds the completed stages' outputs, and the exception
\* is the only thing the caller receives.
C6_ReportSetThenDropped ==
    Failed =>
        /\ results["status"] = "error"
        /\ "error_message" \in DOMAIN results
        /\ ("Fetched" \in Range(trace) => "download_path" \in DOMAIN results)
        /\ ~caller.hasReport

C6_Reached == Failed /\ "download_path" \in DOMAIN results

RECURSIVE IsSubseq(_, _)
\* s is t with some elements left out.
IsSubseq(s, t) ==
    IF s = <<>> THEN TRUE
    ELSE IF t = <<>> THEN FALSE
    ELSE IF Head(s) = Head(t) THEN IsSubseq(Tail(s), Tail(t))
    ELSE IsSubseq(s, Tail(t))

\* C7 as stated: strand augmentation before filtering.
C7_ClaimedOrder ==
    Succeeded =>
        IsSubseq(trace, <<"ConfigResolved", "Fetched", "Normalized",
                          "FeatureComputed", "StrandAugmented", "Filtered",
                          "Persisted", "Scored", "Done">>)

\* C7 (amended): a successful run passes the stages ConfigResolved, Fetched,
\* Normalized, FeatureComputed, Filtered, StrandAugmented (exactly when
\* add_strand), Persisted (exactly when an output path is given), Scored
\* (exactly when statistics are requested), Done, in this order.
C7_StagesInCodeOrder ==
    Succeeded =>
        trace = <<"ConfigResolved", "Fetched", "Normalized", "FeatureComputed",
                  "Filtered">>
                \o (IF opts.add_strand THEN <<"StrandAugmented">> ELSE <<>>)
                \o (IF opts.output_path THEN <<"Persisted">> ELSE <<>>)
                \o (IF opts.do_statistics THEN <<"Scored">> ELSE <<>>)
                \o <<"Done">>

C7_Reached ==
    Succeeded /\ opts.add_strand /\ opts.output_path /\ opts.do_statistics

\* The run is past step 2.1.
PastStrand == pc \in {"persist", "clear", "stats", "finish"} \/ Succeeded

\* C8: a run with add_strand never gets past step 2.1, and never succeeds,
\* unless the dataset has a genome_version, the genome download succeeded and
\* gave a GTF path, and the strand column was added.
C8_StrandRequestedNeverSkipped ==
    (PastStrand /\ opts.add_strand) =>
        /\ "genome_version" \in DOMAIN Config
        /\ "genome_download_error" \notin DOMAIN results
        /\ "genome_files" \in DOMAIN results
        /\ "gtf" \in results["genome_files"]
        /\ "StrandAugmented" \in Range(trace)
        /\ HasCol(processed_data, "strand")

\* A dataset without genome_version, add_strand requested: the run fails at
\* step 2.1, after the data was fetched and filtered.
C8_Reached ==
    /\ Failed /\ opts.add_strand
    /\ "genome_version" \notin DOMAIN Config
    /\ "Filtered" \in Range(trace)
    /\ caller.error = "ValueError: GTF file not available"

Constructed == pc \notin {"new", "ctor_failed"}

\* C12: the resolved descriptor has every dataset-level key with exactly the
\* dataset-level value (a colliding list or nested mapping is replaced whole)
\* and every key defined only at task level with the task-level value.
C12_DatasetOverlaysTask ==
    Constructed =>
        LET task == DATASET_CONFIG[task_name]["task_config"]
            dataset == DATASET_CONFIG[task_name][dataset_name]
        IN  /\ DOMAIN Config = (DOMAIN task) \cup (DOMAIN dataset)
            /\ \A k \in DOMAIN dataset : Config[k] = dataset[k]
            /\ \A k \in (DOMAIN task) \ (DOMAIN dataset) : Config[k] = task[k]

\* A dataset that defines output_columns and required_columns itself: the
\* resolved lists are the dataset's, the threshold is the task's.
C12_Reached ==
    /\ pc = "idle" /\ dataset_name = "Overriding"
    /\ Config["output_columns"] = OverridingDataset.output_columns
    /\ Config["output_columns"] # EnhancerTaskConfig.output_columns
    /\ Len(Config["required_columns"]) = 2
    /\ Config["distance_threshold"] = EnhancerTaskConfig.distance_threshold

\* C17: every call for a URL uses the same cache path; a call issues a
\* download exactly when force is set or the cache file does not exist, and
\* a call with force unset on an existing cache file returns the cached path
\* and leaves the file as it is.
C17_DownloadOnlyWhenAbsentOrForced ==
    /\ \A p, q \in cachePaths : p[1] = q[1] => p[2] = q[2]
    /\ lastFetch.called =>
           /\ lastFetch.requested <=>
                  (lastFetch.force \/ lastFetch.before = "absent")
           /\ ~lastFetch.requested =>
                  /\ lastFetch.ok
                  /\ lastFetch.path = get_cache_path("cache_dir", lastFetch.url)
                  /\ lastFetch.after = lastFetch.before
           /\ lastFetch.ok =>
                  lastFetch.path = get_cache_path("cache_dir", lastFetch.url)

\* A second call, force unset, after a download that completed: the cached
\* path is returned and no download is issued.
C17_Reached ==
    /\ lastFetch.called /\ ~lastFetch.force
    /\ lastFetch.before = "complete"
    /\ ~lastFetch.requested /\ lastFetch.ok
    /\ fetchCalls = 2

\* C18: a run in which a call of download raised (for the dataset or for a
\* requested reference genome) ends with the error raised to the caller,
\* never with status 'success'.
C18_FetchFailureRaised ==
    (PipelineEnded /\ fetchFailed) => Failed

\* What the code does when the genome download fails and add_strand is not
\* requested: the error is stored in the report and the run goes on.
C18_GenomeFailureRecorded ==
    (Succeeded /\ fetchFailed) =>
        /\ opts.download_genome /\ ~opts.add_strand
        /\ "genome_download_error" \in DOMAIN caller.report
        /\ caller.report["status"] = "success"

C18_Reached == Succeeded /\ fetchFailed

\* C20: a path returned as a cache hit refers to a file with the complete
\* content of a finished download.
C20_CacheHitIsComplete ==
    (lastFetch.called /\ lastFetch.ok /\ ~lastFetch.requested)
        => lastFetch.after = "complete"

\* What the code does: the file an interrupted download left is a cache hit.
C20_Reached ==
    /\ lastFetch.called /\ lastFetch.ok /\ ~lastFetch.requested
    /\ lastFetch.after = "partial"

\* C21: after any sequence of download, clear_cache and initialize_pipeline
\* calls, a download() or pipeline run does not fail because the cache was
\* cleared before: no call ends with the error of writing into the removed
\* cache directory, and a call made on a cleared cache whose request is
\* answered returns the path of an existing file.
C21_FetchSurvivesClearing ==
    /\ caller.kind = "raised" => caller.error # "FileNotFoundError"
    /\ (lastFetch.called /\ lastFetch.ok) => lastFetch.after # "absent"

\* What the code does: clear_cache removes the dataset's cache directory and
\* nothing makes it again, so no later call of download on this processor
\* returns a path.
C21_NoFetchIntoRemovedDirectory ==
    (lastFetch.called /\ ~fs.cacheDir /\ pc = "idle" /\ caller.op = "download")
        => /\ ~lastFetch.ok
           /\ caller.kind = "raised"
           /\ fs.data = AbsentFile

\* A pipeline run with clear_cache=True succeeded, and the download() that
\* followed failed writing into the removed directory.
C21_Reached ==
    /\ caller = Raised("download", "FileNotFoundError")
    /\ ~fs.cacheDir
    /\ "Done" \in Range(trace) /\ opts.clear_cache

====
